---- MODULE Spec2Model ----
(***************************************************************************)
(* Model of the consciousness-graph engine of Dropineth/Clippy:            *)
(*   - ConsciousnessNetwork.generate_consciousness_graph and its helpers   *)
(*     (src/unnamed/part_000), one action per statement group of the       *)
(*     method, so that the intermediate states of a build are states of    *)
(*     the model;                                                          *)
(*   - save_to_file / load_from_file through a modelled JSON document;     *)
(*   - ActiveHashedInteractionNetwork.hash_function (src/ai-model.py);     *)
(*   - extract_consciousness_representation with the dimensions of its     *)
(*     vectors, builds that raise, and the list objects behind a returned  *)
(*     graph (src/unnamed/part_000);                                       *)
(*   - AIProcessor.process_user_data and query_similar_users               *)
(*     (src/unnamed/part_000);                                             *)
(*   - DataManager (src/data-manager-complete.py) over the storage         *)
(*     service of WalrusStorageClient (src/ai-storage.py).                 *)
(* add_node, add_edge, query_similar_nodes and the per-item embedding      *)
(* extractor belong to the part of ConsciousnessNetwork that is not in     *)
(* src/; they are modelled from spec.md (sections 3, 4.7, 4.8).            *)
(***************************************************************************)
EXTENDS Integers, Sequences, FiniteSets, TLC

VARIABLES
    nodes,                 \* self.nodes: sequence of node records
    edges,                 \* self.edges: sequence of edge records
    pc,                    \* position inside generate_consciousness_graph
    user_data,             \* argument of the running call
    consciousness_vector,  \* local of the running call
    core_node_id,          \* local of the running call
    i,                     \* loop index of the running call
    node_id,               \* local: id of the node of item i
    similar_nodes,         \* local: the part of the query result not yet linked
    ret,                   \* the last finished call and the value it returned
    built,                 \* history: what the running call has appended so far
    file,                  \* content of the file save/load work on
    saved,                 \* history: the builder's graph when file was written
    hin,                   \* hash_function: inputs of the last two invocations
    hout,                  \* hash_function: results of the last two invocations
    unified_dim,           \* ConsciousnessNetwork.unified_dim
    output_dim,            \* the output_dim of the network's AHIN model
    invoked,               \* history: extractor and model invocations of a call
    nodes_ref,             \* identity of the list object self.nodes is bound to
    edges_ref,             \* identity of the list object self.edges is bound to
    held,                  \* a graph value a caller kept from an earlier return
    walrus_manager,        \* AIProcessor.walrus_manager is set
    bpfs_manager,          \* AIProcessor.bpfs_manager is set
    stored,                \* history: store operations the processor issued
    proc,                  \* position inside AIProcessor.process_user_data
    cache,                 \* DataManager.cache: ref_id, owner, timestamp
    walrus,                \* what the storage service holds: ref_id, document
    clock                  \* number of references the DataManager has made

vars == <<nodes, edges, pc, user_data, consciousness_vector, core_node_id, i,
          node_id, similar_nodes, ret, built, file, saved, hin, hout,
          unified_dim, output_dim, invoked, nodes_ref, edges_ref, held,
          walrus_manager, bpfs_manager, stored, proc, cache, walrus, clock>>

graphVars == <<nodes, edges, pc, user_data, consciousness_vector, core_node_id,
               i, node_id, similar_nodes, ret, built>>
fileVars == <<file, saved>>
hashVars == <<hin, hout>>
extractVars == <<unified_dim, output_dim, invoked>>
aliasVars == <<nodes_ref, edges_ref, held>>
procVars == <<walrus_manager, bpfs_manager, stored, proc>>
dataVars == <<cache, walrus, clock>>
restVars == <<extractVars, aliasVars, procVars, dataVars>>

-----------------------------------------------------------------------------
(* Bounds of the model.                                                    *)

\* longest item sequence given to generate_consciousness_graph under Spec
MaxItems == 4
\* longest item sequence under PersistSpec, where the file multiplies the states
MaxPersistItems == 1
\* largest top_k of a direct query_similar_nodes call
MaxTopK == 4
\* Python's None where a node is expected
None == [id |-> 0]

\* no vector yet, no value returned, no file; a node id not yet set is 0
NoVector == <<>>
NoValue == [kind |-> "none"]
NoFile == [kind |-> "absent"]

Min(a, b) == IF a < b THEN a ELSE b

-----------------------------------------------------------------------------
(* Items.  An item is a dict; the model keeps the three keys the           *)
(* classification looks at, every present key carrying the item's content. *)

ModalityKeys == {"text", "image", "audio"}

\* content tokens: what the extractor can tell apart in an item
Contents == {"c1", "c2", "c3"}

\* every dict over the three keys, each present key carrying the same content
AllItems == UNION {[K -> {c}] : K \in SUBSET ModalityKeys, c \in Contents}

\* the items a caller passes: one for each case of the classification
Items ==
    {[k \in {} |-> "c1"],
     [k \in {"text"} |-> "c1"],
     [k \in {"image"} |-> "c2"],
     [k \in {"audio"} |-> "c3"],
     [k \in {"text", "image"} |-> "c1"]}

HasKey(data_item, k) == k \in DOMAIN data_item

\* src/unnamed/part_000:106-117.  The tests run in the order of the code.
_determine_data_type(data_item) ==
    IF HasKey(data_item, "text") THEN "text_data"
    ELSE IF HasKey(data_item, "image") THEN "image_data"
    ELSE IF HasKey(data_item, "audio") THEN "audio_data"
    ELSE IF \A k \in {"text", "image"} : HasKey(data_item, k) THEN "multimodal_data"
    ELSE "generic_data"

-----------------------------------------------------------------------------
(* Embeddings are 2-vectors of integers whose norm is an integer, so that  *)
(* every cosine similarity is an exact rational [num, den], den > 0.       *)

ZeroVector == <<0, 0>>

\* unit vectors F.normalize can return (part_000:40)
UnitVectors == {<<1, 0>>, <<0, -1>>}

\* what the extractor yields for each content
EmbeddingTable ==
    [c \in Contents |->
        IF c = "c1" THEN <<1, 0>> ELSE IF c = "c2" THEN <<3, 4>> ELSE <<-3, -4>>]

\* the embedding of an item is a function of its content (<<1, 0>> for an
\* item with none of the three keys)
_generate_embedding_from_data(data_item) ==
    IF DOMAIN data_item = {} THEN <<1, 0>>
    ELSE EmbeddingTable[CHOOSE c \in Contents :
                            \A k \in DOMAIN data_item : data_item[k] = c]

Dot(a, b) == a[1] * b[1] + a[2] * b[2]

\* integer square root of a perfect square
Norm(a) == CHOOSE n \in 0..(Dot(a, a) + 1) : n * n = Dot(a, a)

\* cosine similarity as a rational; a zero vector scores 0
Cosine(a, b) ==
    IF Norm(a) * Norm(b) = 0 THEN [num |-> 0, den |-> 1]
    ELSE [num |-> Dot(a, b), den |-> Norm(a) * Norm(b)]

RatGT(x, y) == x.num * y.den > y.num * x.den
RatEQ(x, y) == x.num * y.den = y.num * x.den
RatGE(x, y) == x.num * y.den >= y.num * x.den

-----------------------------------------------------------------------------
(* Nodes, edges and the similarity index (modelled from spec.md 3, 4.7,    *)
(* 4.8: these methods of ConsciousnessNetwork are not in src/).            *)

\* the id add_node gives the next node: unique among the builder's nodes
NewNodeId(ns) == Len(ns) + 1

\* add_node(data, kind, embedding): appends one node
add_node(ns, data, kind, embedding) ==
    Append(ns, [id |-> NewNodeId(ns), kind |-> kind, data |-> data,
                embedding |-> embedding])

\* add_edge(source, dest, kind, weight, attributes): appends one edge
add_edge(es, source, dest, kind, weight, attributes) ==
    Append(es, [source |-> source, dest |-> dest, kind |-> kind,
                weight |-> weight, attributes |-> attributes])

\* src/unnamed/part_000:119-124: the first node with that id, or None
_get_node_by_id(ns, nid) ==
    IF \E k \in 1..Len(ns) : ns[k].id = nid
    THEN ns[CHOOSE k \in 1..Len(ns) :
                /\ ns[k].id = nid
                /\ \A j \in 1..(k - 1) : ns[j].id # nid]
    ELSE None

\* a node with its score against the query
Scored(n, embedding) ==
    [id |-> n.id, kind |-> n.kind, data |-> n.data, embedding |-> n.embedding,
     similarity_score |-> Cosine(embedding, n.embedding)]

\* InsertDesc placing x before the entries of equal score
RECURSIVE InsertDescUnstable(_, _)
InsertDescUnstable(s, x) ==
    IF s = <<>> THEN <<x>>
    ELSE IF RatGT(Head(s).similarity_score, x.similarity_score)
         THEN <<Head(s)>> \o InsertDescUnstable(Tail(s), x)
         ELSE <<x>> \o s

\* x placed after every entry of the descending sequence s that scores >= x
RECURSIVE InsertDesc(_, _)
InsertDesc(s, x) ==
    IF s = <<>> THEN <<x>>
    ELSE IF RatGE(Head(s).similarity_score, x.similarity_score)
         THEN <<Head(s)>> \o InsertDesc(Tail(s), x)
         ELSE <<x>> \o s

\* stable sort by descending score of the first k nodes of ns
RECURSIVE SortDesc(_, _, _)
SortDesc(ns, embedding, k) ==
    IF k = 0 THEN <<>>
    ELSE InsertDesc(SortDesc(ns, embedding, k - 1), Scored(ns[k], embedding))

\* query_similar_nodes(embedding, top_k): the top_k best of all the nodes
query_similar_nodes(ns, embedding, top_k) ==
    SubSeq(SortDesc(ns, embedding, Len(ns)), 1, Min(top_k, Len(ns)))

-----------------------------------------------------------------------------
(* generate_consciousness_graph, src/unnamed/part_000:44-104.              *)

\* src/unnamed/part_000:84: the k of the build's similarity query
BuildTopK == 3

\* line 63: the data of the core node; the timestamp is one token
CoreData == [type |-> "core_consciousness", timestamp |-> "now"]

\* the attributes of an edge added without any
NoAttributes == [k \in {} |-> [num |-> 0, den |-> 1]]

\* a new builder
InitBuilder ==
    /\ nodes = <<>>
    /\ edges = <<>>
    /\ pc = "idle"
    /\ user_data = <<>>
    /\ consciousness_vector = NoVector
    /\ core_node_id = 0
    /\ i = 0
    /\ node_id = 0
    /\ similar_nodes = <<>>
    /\ ret = NoValue
    /\ built = [nodes |-> <<>>, edges |-> <<>>]

\* no file has been written
InitFile ==
    /\ file = NoFile
    /\ saved = NoFile

\* a model whose hash function was never called
InitHash ==
    /\ hin = <<>>
    /\ hout = <<>>

\* a network whose vectors all have the two components of EmbeddingTable
InitExtract ==
    /\ unified_dim = 2
    /\ output_dim = 2
    /\ invoked = [extractor |-> 0, encoder |-> 0]

\* self.nodes and self.edges are two list objects; no caller holds a graph
InitAlias ==
    /\ nodes_ref = 0
    /\ edges_ref = 1
    /\ held = NoValue

\* src/unnamed/part_000:150-174 with both services configured
InitProcessor ==
    /\ walrus_manager = TRUE
    /\ bpfs_manager = TRUE
    /\ stored = <<>>
    /\ proc = [at |-> "idle"]

\* src/data-manager-complete.py:6-7: an empty cache, and an empty service
InitData ==
    /\ cache = {}
    /\ walrus = {}
    /\ clock = 0

Init ==
    /\ InitBuilder
    /\ InitFile
    /\ InitHash
    /\ InitExtract
    /\ InitAlias
    /\ InitProcessor
    /\ InitData

ItemSeqs(n) == UNION {[1..m -> Items] : m \in 0..n}

\* GenStart without the reset of lines 55-56
GenStartKeeps(items) ==
    /\ pc = "idle"
    /\ UNCHANGED <<nodes, edges>>
    /\ user_data' = items
    /\ consciousness_vector' = NoVector
    /\ core_node_id' = 0
    /\ i' = 0
    /\ node_id' = 0
    /\ similar_nodes' = <<>>
    /\ ret' = NoValue
    /\ built' = [nodes |-> <<>>, edges |-> <<>>]
    /\ pc' = "extract"

\* GenStart with the reset of line 56 left out
GenStartKeepsEdges(items) ==
    /\ pc = "idle"
    /\ nodes' = <<>>
    /\ UNCHANGED edges
    /\ user_data' = items
    /\ consciousness_vector' = NoVector
    /\ core_node_id' = 0
    /\ i' = 0
    /\ node_id' = 0
    /\ similar_nodes' = <<>>
    /\ ret' = NoValue
    /\ built' = [nodes |-> <<>>, edges |-> <<>>]
    /\ pc' = "extract"

\* lines 54-56: the call starts by rebinding nodes and edges to empty lists
GenStart(items) ==
    /\ pc = "idle"
    /\ nodes' = <<>>
    /\ edges' = <<>>
    /\ user_data' = items
    /\ consciousness_vector' = NoVector
    /\ core_node_id' = 0
    /\ i' = 0
    /\ node_id' = 0
    /\ similar_nodes' = <<>>
    /\ ret' = NoValue
    /\ built' = [nodes |-> <<>>, edges |-> <<>>]
    /\ pc' = "extract"

\* a call on a builder that has built nothing yet
GenBegin ==
    /\ nodes = <<>>
    /\ ret.kind # "graph"
    /\ \E items \in ItemSeqs(MaxItems) : GenStart(items)
    /\ UNCHANGED <<fileVars, hashVars, restVars>>

\* lines 12-42 as called from line 59: the zero vector for no items, else the
\* normalised mean of the model's outputs, a unit vector
extract_consciousness_representation(items) ==
    IF items = <<>> THEN {ZeroVector} ELSE UnitVectors

GenExtract ==
    /\ pc = "extract"
    /\ consciousness_vector' \in extract_consciousness_representation(user_data)
    /\ pc' = "core"
    /\ UNCHANGED <<nodes, edges, user_data, core_node_id, i, node_id,
                   similar_nodes, ret, built, fileVars, hashVars, restVars>>

\* GenCore with the node's kind taken from the data's type field
GenCoreMislabelled ==
    /\ pc = "core"
    /\ nodes' = add_node(nodes, CoreData, CoreData.type, consciousness_vector)
    /\ core_node_id' = NewNodeId(nodes)
    /\ built' = [built EXCEPT !.nodes = Append(@, nodes'[Len(nodes')])]
    /\ i' = 0
    /\ pc' = "loop"
    /\ UNCHANGED <<edges, user_data, consciousness_vector, node_id,
                   similar_nodes, ret, fileVars, hashVars, restVars>>

\* lines 61-66: the core node
GenCore ==
    /\ pc = "core"
    /\ nodes' = add_node(nodes, CoreData, "consciousness", consciousness_vector)
    /\ core_node_id' = NewNodeId(nodes)
    /\ built' = [built EXCEPT !.nodes = Append(@, nodes'[Len(nodes')])]
    /\ i' = 0
    /\ pc' = "loop"
    /\ UNCHANGED <<edges, user_data, consciousness_vector, node_id,
                   similar_nodes, ret, fileVars, hashVars, restVars>>

\* lines 69-72: the node of item i (i is 0-based, user_data 1-based)
GenAddNode ==
    /\ pc = "loop"
    /\ i < Len(user_data)
    /\ LET data_item == user_data[i + 1]
           data_type == _determine_data_type(data_item)
       IN  /\ nodes' = add_node(nodes, data_item, data_type,
                                _generate_embedding_from_data(data_item))
           /\ node_id' = NewNodeId(nodes)
    /\ built' = [built EXCEPT !.nodes = Append(@, nodes'[Len(nodes')])]
    /\ pc' = "connect"
    /\ UNCHANGED <<edges, user_data, consciousness_vector, core_node_id, i,
                   similar_nodes, ret, fileVars, hashVars, restVars>>

\* GenConnect with the endpoints exchanged
GenConnectReversed ==
    /\ pc = "connect"
    /\ edges' = add_edge(edges, node_id, core_node_id, "consciousness_connection",
                         [num |-> 1, den |-> i + 1], NoAttributes)
    /\ built' = [built EXCEPT !.edges = Append(@, edges'[Len(edges')])]
    /\ pc' = "query"
    /\ UNCHANGED <<nodes, user_data, consciousness_vector, core_node_id, i,
                   node_id, similar_nodes, ret, fileVars, hashVars, restVars>>

\* lines 74-80: the edge from the core node, weight 1/(i+1)
GenConnect ==
    /\ pc = "connect"
    /\ edges' = add_edge(edges, core_node_id, node_id, "consciousness_connection",
                         [num |-> 1, den |-> i + 1], NoAttributes)
    /\ built' = [built EXCEPT !.edges = Append(@, edges'[Len(edges')])]
    /\ pc' = "query"
    /\ UNCHANGED <<nodes, user_data, consciousness_vector, core_node_id, i,
                   node_id, similar_nodes, ret, fileVars, hashVars, restVars>>

\* lines 82-84: the similarity query with the new node's embedding
GenQuery ==
    /\ pc = "query"
    /\ similar_nodes' = query_similar_nodes(
            nodes, _get_node_by_id(nodes, node_id).embedding, BuildTopK)
    /\ pc' = "link"
    /\ UNCHANGED <<nodes, edges, user_data, consciousness_vector, core_node_id,
                   i, node_id, ret, built, fileVars, hashVars, restVars>>

\* the filter of line 88 left out
IsAnyNode(sim_node, nid) == TRUE

\* line 88: the filter on the query's results
IsOtherNode(sim_node, nid) == sim_node.id # nid

\* GenLink with the endpoints exchanged
GenLinkReversed ==
    /\ pc = "link"
    /\ similar_nodes # <<>>
    /\ LET sim_node == Head(similar_nodes)
       IN  edges' = IF sim_node.id # node_id
                    THEN add_edge(edges, sim_node.id, node_id, "semantic_similarity",
                                  sim_node.similarity_score,
                                  [similarity_score |-> sim_node.similarity_score])
                    ELSE edges
    /\ built' = IF Len(edges') > Len(edges)
                THEN [built EXCEPT !.edges = Append(@, edges'[Len(edges')])]
                ELSE built
    /\ similar_nodes' = Tail(similar_nodes)
    /\ UNCHANGED <<nodes, pc, user_data, consciousness_vector, core_node_id, i,
                   node_id, ret, fileVars, hashVars, restVars>>

\* lines 87-95: one turn of the loop over the similar nodes
GenLink ==
    /\ pc = "link"
    /\ similar_nodes # <<>>
    /\ LET sim_node == Head(similar_nodes)
       IN  edges' = IF IsOtherNode(sim_node, node_id)
                    THEN add_edge(edges, node_id, sim_node.id, "semantic_similarity",
                                  sim_node.similarity_score,
                                  [similarity_score |-> sim_node.similarity_score])
                    ELSE edges
    /\ built' = IF Len(edges') > Len(edges)
                THEN [built EXCEPT !.edges = Append(@, edges'[Len(edges')])]
                ELSE built
    /\ similar_nodes' = Tail(similar_nodes)
    /\ UNCHANGED <<nodes, pc, user_data, consciousness_vector, core_node_id, i,
                   node_id, ret, fileVars, hashVars, restVars>>

\* line 69: the loop over the similar nodes is over, on to the next item
GenNext ==
    /\ pc = "link"
    /\ similar_nodes = <<>>
    /\ i' = i + 1
    /\ pc' = "loop"
    /\ UNCHANGED <<nodes, edges, user_data, consciousness_vector, core_node_id,
                   node_id, similar_nodes, ret, built, fileVars, hashVars, restVars>>

\* GenReturn with the loop of line 69 ending one item early
GenReturnEarly ==
    /\ pc = "loop"
    /\ i >= Len(user_data) - 1
    /\ ret' = [kind |-> "graph",
               consciousness_vector |-> consciousness_vector,
               nodes |-> nodes, edges |-> edges]
    /\ pc' = "idle"
    /\ UNCHANGED <<nodes, edges, user_data, consciousness_vector, core_node_id,
                   i, node_id, similar_nodes, built, fileVars, hashVars, restVars>>

\* lines 97-104: the graph returned
GenReturn ==
    /\ pc = "loop"
    /\ i >= Len(user_data)
    /\ ret' = [kind |-> "graph",
               consciousness_vector |-> consciousness_vector,
               nodes |-> nodes, edges |-> edges]
    /\ pc' = "idle"
    /\ UNCHANGED <<nodes, edges, user_data, consciousness_vector, core_node_id,
                   i, node_id, similar_nodes, built, fileVars, hashVars, restVars>>

\* vectors a caller queries with
QueryVectors == {<<3, 4>>, <<0, -1>>}

\* a direct call of query_similar_nodes on the builder's current graph.  A
\* query leaves the graph as it is, so a query that follows a query reaches
\* only states a first query reaches: one query per graph is explored.
Query ==
    /\ pc = "idle"
    /\ ret.kind # "similar"
    /\ \E q \in QueryVectors, top_k \in 0..MaxTopK :
           ret' = [kind |-> "similar", embedding |-> q, top_k |-> top_k,
                   result |-> query_similar_nodes(nodes, q, top_k)]
    /\ UNCHANGED <<nodes, edges, pc, user_data, consciousness_vector,
                   core_node_id, i, node_id, similar_nodes, built, fileVars,
                   hashVars, restVars>>

-----------------------------------------------------------------------------
(* save_to_file / load_from_file, src/unnamed/part_000:126-142.  A JSON    *)
(* value is a tagged tree: object (a map from keys to values), array,      *)
(* number, string.  json.dump writes the tree of a Python value and        *)
(* json.load builds dicts and lists back from it.                          *)

JsonString(v) == [t |-> "string", v |-> v]
JsonNumber(v) == [t |-> "number", v |-> v]
JsonArray(e) == [t |-> "array", e |-> e]
JsonObject(m) == [t |-> "object", m |-> m]

\* a dict of strings
DumpStrings(d) == JsonObject([k \in DOMAIN d |-> JsonString(d[k])])
\* a dict or a list of numbers
DumpNumbers(d) == [k \in DOMAIN d |-> JsonNumber(d[k])]

DumpNode(n) ==
    JsonObject([id |-> JsonNumber(n.id),
                type |-> JsonString(n.kind),
                data |-> DumpStrings(n.data),
                embedding |-> JsonArray(DumpNumbers(n.embedding))])

DumpEdge(e) ==
    JsonObject([source |-> JsonNumber(e.source),
                target |-> JsonNumber(e.dest),
                type |-> JsonString(e.kind),
                weight |-> JsonNumber(e.weight),
                attributes |-> JsonObject(DumpNumbers(e.attributes))])

\* lines 128-134: json.dump({'nodes': self.nodes, 'edges': self.edges})
JsonDump(ns, es) ==
    JsonObject([nodes |-> JsonArray([k \in 1..Len(ns) |-> DumpNode(ns[k])]),
                edges |-> JsonArray([k \in 1..Len(es) |-> DumpEdge(es[k])])])

\* the Python value of a tree of strings or numbers
LoadLeaves(m) == [k \in DOMAIN m |-> m[k].v]

LoadNode(j) ==
    [id |-> j.m.id.v, kind |-> j.m.type.v, data |-> LoadLeaves(j.m.data.m),
     embedding |-> LoadLeaves(j.m.embedding.e)]

LoadEdge(j) ==
    [source |-> j.m.source.v, dest |-> j.m.target.v, kind |-> j.m.type.v,
     weight |-> j.m.weight.v, attributes |-> LoadLeaves(j.m.attributes.m)]

\* lines 141-142: data.get(key, []) on the loaded document
DataGet(doc, key) == IF key \in DOMAIN doc.m THEN doc.m[key].e ELSE <<>>

LoadNodes(doc, key) ==
    [k \in DOMAIN DataGet(doc, key) |-> LoadNode(DataGet(doc, key)[k])]
LoadEdges(doc, key) ==
    [k \in DOMAIN DataGet(doc, key) |-> LoadEdge(DataGet(doc, key)[k])]

\* lines 126-134
save_to_file ==
    /\ pc = "idle"
    /\ file' = JsonDump(nodes, edges)
    /\ saved' = [kind |-> "graph", nodes |-> nodes, edges |-> edges]
    /\ ret' = [kind |-> "saved"]
    /\ UNCHANGED <<nodes, edges, pc, user_data, consciousness_vector,
                   core_node_id, i, node_id, similar_nodes, built, hashVars,
                   restVars>>

\* load_from_file reading the edges under a key the document does not have
load_from_file_wrong_key ==
    /\ pc = "idle"
    /\ file # NoFile
    /\ nodes' = LoadNodes(file, "nodes")
    /\ edges' = LoadEdges(file, "edge")
    /\ ret' = [kind |-> "loaded"]
    /\ UNCHANGED <<pc, user_data, consciousness_vector, core_node_id, i,
                   node_id, similar_nodes, built, fileVars, hashVars, restVars>>

\* lines 136-142
load_from_file ==
    /\ pc = "idle"
    /\ file # NoFile
    /\ nodes' = LoadNodes(file, "nodes")
    /\ edges' = LoadEdges(file, "edges")
    /\ ret' = [kind |-> "loaded"]
    /\ UNCHANGED <<pc, user_data, consciousness_vector, core_node_id, i,
                   node_id, similar_nodes, built, fileVars, hashVars, restVars>>

\* line 138: open() of a file that does not exist raises; nothing is assigned
LoadMissing ==
    /\ pc = "idle"
    /\ file = NoFile
    /\ ret' = [kind |-> "error", error |-> "FileNotFoundError"]
    /\ UNCHANGED <<nodes, edges, pc, user_data, consciousness_vector,
                   core_node_id, i, node_id, similar_nodes, built, fileVars,
                   hashVars, restVars>>

\* a call on a builder in any state, with the short inputs of PersistSpec
GenAgain ==
    /\ \E items \in ItemSeqs(MaxPersistItems) : GenStart(items)
    /\ UNCHANGED <<fileVars, hashVars, restVars>>

Build ==
    \/ GenExtract
    \/ GenCore
    \/ GenAddNode
    \/ GenConnect
    \/ GenQuery
    \/ GenLink
    \/ GenNext
    \/ GenReturn

Next ==
    \/ GenBegin
    \/ Build
    \/ Query

-----------------------------------------------------------------------------
(* ActiveHashedInteractionNetwork.hash_function, src/ai-model.py:71-94.    *)

\* src/ai-model.py:18: the default of hash_size
hash_size == 1024
\* src/ai-model.py:76: columns of the random projection
ProjectionBits == 32
\* src/ai-model.py:82: bits folded into one digit
SegmentBits == 8
\* src/ai-model.py:92: the base of the fold
DigitBase == 256

\* number of distinct matrices torch.randn can return in the model
NumDraws == 3

\* feature vectors given to the hash function
HashFeatures == {<<0, 0>>, <<1, 0>>, <<1, -1>>, <<-2, 1>>}

\* the matrices torch.randn(x.size(-1), 32) can return: draw d, column j
RandnColumn(d, j) == <<((d * (j + 1)) % 5) - 2, ((d + j) % 3) - 1>>
RandnDraws == 1..NumDraws

RECURSIVE Pow2(_)
Pow2(n) == IF n = 0 THEN 1 ELSE 2 * Pow2(n - 1)

\* line 76-77: the sign bits of the projection of x on the columns of draw d
binary(x, d) == [j \in 0..(ProjectionBits - 1) |->
                    IF Dot(x, RandnColumn(d, j)) > 0 THEN 1 ELSE 0]

\* lines 82-87: the integer of the 8 bits from bit s on, bit j weighted 2^j
RECURSIVE SegmentIndex(_, _, _)
SegmentIndex(bits, s, n) ==
    IF n = 0 THEN 0
    ELSE SegmentIndex(bits, s, n - 1) + bits[s + n - 1] * Pow2(n - 1)

indices(bits) == [g \in 1..(ProjectionBits \div SegmentBits) |->
                    SegmentIndex(bits, (g - 1) * SegmentBits, SegmentBits)]

\* the fold of lines 90-92 without the reduction of line 92
RECURSIVE CombineUnreduced(_, _, _)
CombineUnreduced(idx, n, size) ==
    IF n = 1 THEN idx[1]
    ELSE CombineUnreduced(idx, n - 1, size) * DigitBase + idx[n]

\* lines 90-92: the fold of the digits in a model whose hash_size is size
RECURSIVE CombineMod(_, _, _)
CombineMod(idx, n, size) ==
    IF n = 1 THEN idx[1]
    ELSE (CombineMod(idx, n - 1, size) * DigitBase + idx[n]) % size

\* lines 90-92 in a model constructed with the default hash_size
Combine(idx, n) == CombineMod(idx, n, hash_size)

\* lines 71-94 with the matrix drawn at line 76 given
hash_function(x, d) ==
    LET idx == indices(binary(x, d)) IN Combine(idx, Len(idx))

\* lines 79-94: the bucket of a sign pattern in a model whose hash_size is
\* size
HashIndex(bits, size) ==
    LET idx == indices(bits) IN CombineMod(idx, Len(idx), size)

LastTwo(s) == IF Len(s) > 2 THEN Tail(s) ELSE s

\* lines 131-132: forward calls the hash function, which draws its matrix
HashCall ==
    /\ \E x \in HashFeatures, d \in RandnDraws :
        /\ hin' = LastTwo(Append(hin, x))
        /\ hout' = LastTwo(Append(hout, hash_function(x, d)))
    /\ UNCHANGED <<graphVars, fileVars, restVars>>

HashNext == HashCall

\* invocations of the hash function of one model instance
HashSpec == Init /\ [][HashNext]_vars

\* values of hash_size a model is constructed with (line 18 is the default)
HashSizes == {1, 2, 3, 255, 256, 257, 1000, 1024, 65536, 1000003}

\* values of the 8 bits of one group
DigitSamples == {0, 1, 2, 127, 128, 255}

\* line 77: the sign patterns whose four groups of 8 bits have these values
SignPatterns ==
    {[j \in 0..(ProjectionBits - 1) |->
        (ds[(j \div SegmentBits) + 1] \div Pow2(j % SegmentBits)) % 2] :
            ds \in [1..(ProjectionBits \div SegmentBits) -> DigitSamples]}

\* a model of any hash_size, about to hash an input with any of the patterns
FoldInit ==
    /\ InitBuilder
    /\ InitFile
    /\ InitExtract
    /\ InitAlias
    /\ InitProcessor
    /\ InitData
    /\ \E bits \in SignPatterns, size \in HashSizes :
        hin = <<[binary |-> bits, hash_size |-> size]>>
    /\ hout = <<>>

\* lines 79-94 on the sign pattern of the input
FoldCall ==
    /\ hout = <<>>
    /\ hout' = <<HashIndex(hin[1].binary, hin[1].hash_size)>>
    /\ UNCHANGED <<hin, graphVars, fileVars, restVars>>

FoldNext == FoldCall

\* the bucket computation alone, over sign patterns and table sizes
FoldSpec == FoldInit /\ [][FoldNext]_vars

\* one build on a new builder, and queries
Spec == Init /\ [][Next]_vars

PersistNext ==
    \/ GenAgain
    \/ Build
    \/ save_to_file
    \/ load_from_file
    \/ LoadMissing

\* any sequence of builds, saves and loads on one builder
PersistSpec == Init /\ [][PersistNext]_vars

-----------------------------------------------------------------------------
(* ConsciousnessNetwork.extract_consciousness_representation,              *)
(* src/unnamed/part_000:2-42, with the dimensions of its vectors.  The     *)
(* constructor that sets unified_dim and builds the AHIN model is not in   *)
(* src/; the two dimensions are construction-time parameters (spec.md 6).  *)

\* largest vector dimension of a configured network
MaxDim == 3
\* longest item sequence given to a direct call of the extraction
MaxExtractItems == 2

Dims == 1..MaxDim

\* np.zeros(n)
Zeros(n) == [k \in 1..n |-> 0]

\* the vectors F.normalize can return for a mean of dimension n: a unit
\* vector, or the zero vector when the mean is exactly zero
Normalized(n) ==
    {[k \in 1..n |-> IF k = j THEN s ELSE 0] : j \in 1..n, s \in {1, -1}}
        \cup {Zeros(n)}

\* a network constructed with any pair of dimensions
ExtractInit ==
    /\ InitBuilder
    /\ InitFile
    /\ InitHash
    /\ InitAlias
    /\ InitProcessor
    /\ InitData
    /\ unified_dim \in Dims
    /\ output_dim \in Dims
    /\ invoked = [extractor |-> 0, encoder |-> 0]

\* lines 12-13: no item, the zero vector of length unified_dim, returned
\* before the loop of line 17 and the model call of line 32
ExtractEmpty ==
    /\ pc = "idle"
    /\ user_data' = <<>>
    /\ ret' = [kind |-> "vector", value |-> Zeros(unified_dim)]
    /\ invoked' = [extractor |-> 0, encoder |-> 0]
    /\ UNCHANGED <<nodes, edges, pc, consciousness_vector, core_node_id, i,
                   node_id, similar_nodes, built, unified_dim, output_dim,
                   fileVars, hashVars, aliasVars, procVars, dataVars>>

\* lines 15-42: one extractor call (line 18) and one model call (line 32)
\* per item, then the normalised mean of the outputs
ExtractItems ==
    /\ pc = "idle"
    /\ \E items \in ItemSeqs(MaxExtractItems) \ {<<>>} :
        /\ user_data' = items
        /\ invoked' = [extractor |-> Len(items), encoder |-> Len(items)]
    /\ \E v \in Normalized(output_dim) : ret' = [kind |-> "vector", value |-> v]
    /\ UNCHANGED <<nodes, edges, pc, consciousness_vector, core_node_id, i,
                   node_id, similar_nodes, built, unified_dim, output_dim,
                   fileVars, hashVars, aliasVars, procVars, dataVars>>

ExtractNext ==
    \/ ExtractEmpty
    \/ ExtractItems

\* direct calls of extract_consciousness_representation on networks of any
\* dimensions
ExtractSpec == ExtractInit /\ [][ExtractNext]_vars

-----------------------------------------------------------------------------
(* A generate_consciousness_graph call that raises,                        *)
(* src/unnamed/part_000:58-95: the method has no try block, so an          *)
(* exception of any statement after the reset ends the call and leaves     *)
(* self.nodes and self.edges as that statement found them.                 *)

\* lines 58-95: the statement the call is at raises (line 59: a dimension
\* mismatch in np.stack or in the model; lines 71-95: item i)
GenFail ==
    /\ pc \in {"extract", "core", "connect", "query", "link"}
        \/ (pc = "loop" /\ i < Len(user_data))
    /\ pc' = "idle"
    /\ ret' = [kind |-> "error", error |-> "generate_consciousness_graph"]
    /\ UNCHANGED <<nodes, edges, user_data, consciousness_vector,
                   core_node_id, i, node_id, similar_nodes, built, fileVars,
                   hashVars, restVars>>

FailNext ==
    \/ GenAgain
    \/ Build
    \/ GenFail
    \/ save_to_file

\* builds that can fail, and saves, on one builder
FailSpec == Init /\ [][FailNext]_vars

-----------------------------------------------------------------------------
(* AIProcessor, src/unnamed/part_000:145-265.  process_user_data runs the  *)
(* build of its network (the actions of Build) between its first           *)
(* statement and its store operations.                                     *)

\* store operations one processor may issue in the model
MaxStored == 2

Users == {"u1", "u2"}

NotInitialized == "ValueError: Walrus manager is not initialized"

\* lines 160-174: each manager is set when its url and its key were given
ProcInit ==
    /\ InitBuilder
    /\ InitFile
    /\ InitHash
    /\ InitExtract
    /\ InitAlias
    /\ InitData
    /\ walrus_manager \in BOOLEAN
    /\ bpfs_manager \in BOOLEAN
    /\ stored = <<>>
    /\ proc = [at |-> "idle"]

\* process_user_data without the test of lines 188-189
process_user_data_unchecked ==
    /\ proc.at = "idle"
    /\ Len(stored) + 2 <= MaxStored
    /\ \E items \in ItemSeqs(MaxPersistItems), user_id \in Users :
        /\ GenStart(items)
        /\ proc' = [at |-> "generate", user_id |-> user_id]
    /\ UNCHANGED <<walrus_manager, bpfs_manager, stored>>
    /\ UNCHANGED <<fileVars, hashVars, extractVars, aliasVars, dataVars>>

\* lines 176-192: the test of the walrus manager, then the call of
\* generate_consciousness_graph
process_user_data ==
    /\ proc.at = "idle"
    /\ pc = "idle"
    /\ Len(stored) + 2 <= MaxStored
    /\ \E items \in ItemSeqs(MaxPersistItems), user_id \in Users :
        IF ~walrus_manager
        THEN /\ ret' = [kind |-> "error", error |-> NotInitialized,
                        call |-> "process_user_data"]
             /\ UNCHANGED <<nodes, edges, pc, user_data, consciousness_vector,
                            core_node_id, i, node_id, similar_nodes, built,
                            proc>>
        ELSE /\ GenStart(items)
             /\ proc' = [at |-> "generate", user_id |-> user_id]
    /\ UNCHANGED <<walrus_manager, bpfs_manager, stored>>
    /\ UNCHANGED <<fileVars, hashVars, extractVars, aliasVars, dataVars>>

\* lines 195-214: the graph is back; the vector is stored in Walrus
ProcStoreWalrus ==
    /\ proc.at = "generate"
    /\ pc = "idle"
    /\ ret.kind = "graph"
    /\ stored' = Append(stored,
                    [service |-> "walrus", user_id |-> proc.user_id,
                     data_type |-> "consciousness_vector",
                     consciousness_vector |-> ret.consciousness_vector,
                     data_count |-> Len(user_data)])
    /\ proc' = [proc EXCEPT !.at = "stored"]
    /\ UNCHANGED <<graphVars, walrus_manager, bpfs_manager>>
    /\ UNCHANGED <<fileVars, hashVars, extractVars, aliasVars, dataVars>>

\* lines 206, 219: a store operation raises, and so does process_user_data
ProcStoreFails ==
    /\ proc.at \in {"generate", "stored"}
    /\ pc = "idle"
    /\ ret.kind = "graph"
    /\ proc.at = "stored" => bpfs_manager
    /\ ret' = [kind |-> "error", error |-> "store",
               call |-> "process_user_data"]
    /\ proc' = [at |-> "idle"]
    /\ UNCHANGED <<nodes, edges, pc, user_data, consciousness_vector,
                   core_node_id, i, node_id, similar_nodes, built,
                   walrus_manager, bpfs_manager, stored>>
    /\ UNCHANGED <<fileVars, hashVars, extractVars, aliasVars, dataVars>>

\* lines 216-239: the graph is stored in BPFS when that manager is set, and
\* the result is returned
ProcReturn ==
    /\ proc.at = "stored"
    /\ stored' = IF bpfs_manager
                 THEN Append(stored,
                        [service |-> "bpfs", user_id |-> proc.user_id,
                         data_type |-> "consciousness_graph",
                         consciousness_vector |-> ret.consciousness_vector,
                         data_count |-> Len(ret.nodes)])
                 ELSE stored
    /\ ret' = [kind |-> "processed", user_id |-> proc.user_id,
               consciousness_vector |-> ret.consciousness_vector,
               walrus_data_id |-> Len(stored),
               bpfs_id |-> IF bpfs_manager THEN Len(stored) + 1 ELSE 0]
    /\ proc' = [at |-> "idle"]
    /\ UNCHANGED <<nodes, edges, pc, user_data, consciousness_vector,
                   core_node_id, i, node_id, similar_nodes, built,
                   walrus_manager, bpfs_manager>>
    /\ UNCHANGED <<fileVars, hashVars, extractVars, aliasVars, dataVars>>

\* lines 258-265: the fixed list of top_k users
SimilarUsers(top_k) ==
    [k \in 1..top_k |->
        [user_id |-> k - 1, data_id |-> k - 1,
         similarity_score |-> [num |-> 9 - (k - 1), den |-> 10]]]

\* lines 241-265
query_similar_users ==
    /\ proc.at = "idle"
    /\ pc = "idle"
    /\ \E query_vector \in QueryVectors, top_k \in 0..MaxTopK :
        ret' = IF ~walrus_manager
               THEN [kind |-> "error", error |-> NotInitialized,
                     call |-> "query_similar_users"]
               ELSE [kind |-> "users", result |-> SimilarUsers(top_k)]
    /\ UNCHANGED <<nodes, edges, pc, user_data, consciousness_vector,
                   core_node_id, i, node_id, similar_nodes, built, procVars>>
    /\ UNCHANGED <<fileVars, hashVars, extractVars, aliasVars, dataVars>>

\* a call of generate_consciousness_graph on processor.consciousness_network
ProcDirectBuild ==
    /\ proc.at = "idle"
    /\ GenAgain

ProcNext ==
    \/ process_user_data
    \/ Build
    \/ ProcStoreWalrus
    \/ ProcStoreFails
    \/ ProcReturn
    \/ query_similar_users
    \/ ProcDirectBuild

\* calls on one processor, constructed with or without each manager
ProcSpec == ProcInit /\ [][ProcNext]_vars

-----------------------------------------------------------------------------
(* DataManager, src/data-manager-complete.py, over the storage service     *)
(* reached through WalrusStorageClient, src/ai-storage.py:20-81.  The      *)
(* service is outside the repository: it is modelled as keeping each       *)
(* document under the reference the manager chose for it, which is what    *)
(* the manager relies on, and every request to it can fail, in which case  *)
(* raise_for_status raises.                                                *)

\* references one manager may make in the model
MaxRefs == 2

\* the references a caller can ask for; 0 was never made
RefIds == 0..MaxRefs

\* a dict without keys
EmptyDict == [k \in {} |-> 0]

\* Python values given as data: a numpy array, a list, a dictionary
Ndarray(v) == [py |-> "ndarray", items |-> v, map |-> EmptyDict]
PyList(v) == [py |-> "list", items |-> v, map |-> EmptyDict]
PyDict(m) == [py |-> "dict", items |-> <<>>, map |-> m]
DataValues == {Ndarray(<<1, 2>>), PyDict([score |-> 1])}

\* the metadata argument: absent, or naming the numpy format
Metadatas == {EmptyDict, [format |-> "numpy"]}

\* lines 27-30: data.tolist() for an array, the data itself otherwise
Serializable(data) ==
    IF data.py = "ndarray" THEN PyList(data.items) ELSE data

\* json.dumps of a list or a dict of numbers
DumpData(d) ==
    IF d.py = "list" THEN JsonArray(DumpNumbers(d.items))
    ELSE JsonObject(DumpNumbers(d.map))

\* lines 32-37, 48: json.dumps(storage_obj); no original_ref is given
DumpStorage(data, user_address, timestamp, metadata) ==
    JsonObject([data |-> DumpData(Serializable(data)),
                user_address |-> JsonString(user_address),
                timestamp |-> JsonNumber(timestamp),
                metadata |-> DumpStrings(metadata)])

\* json.loads of an array or an object of numbers
LoadData(j) ==
    IF j.t = "array" THEN PyList(LoadLeaves(j.e)) ELSE PyDict(LoadLeaves(j.m))

\* line 74: json.loads(data_str)
LoadStorage(doc) ==
    [data |-> LoadData(doc.m.data),
     user_address |-> doc.m.user_address.v,
     timestamp |-> doc.m.timestamp.v,
     metadata |-> LoadLeaves(doc.m.metadata.m)]

\* ref_id in self.cache and self.cache[ref_id]["user_address"] == user_address
CacheOwner(c, ref_id, user_address) ==
    \E e \in c : e.ref_id = ref_id /\ e.user_address = user_address

\* the document the service holds under ref
ServiceDoc(ref) == (CHOOSE w \in walrus : w.ref_id = ref).doc

dataFrame == <<nodes, edges, pc, user_data, consciousness_vector,
               core_node_id, i, node_id, similar_nodes, built, fileVars,
               hashVars, extractVars, aliasVars, procVars>>

\* lines 9-56; the uuid of line 45 is the next unused number
store_processed_data ==
    /\ clock < MaxRefs
    /\ clock' = clock + 1
    /\ \E data \in DataValues, user_address \in Users, metadata \in Metadatas :
        \/ /\ walrus' = walrus \cup
                {[ref_id |-> clock + 1,
                  doc |-> DumpStorage(data, user_address, clock + 1, metadata)]}
           /\ cache' = cache \cup
                {[ref_id |-> clock + 1, user_address |-> user_address,
                  timestamp |-> clock + 1]}
           /\ ret' = [kind |-> "returned", call |-> "store_processed_data",
                      ref_id |-> clock + 1, user_address |-> user_address,
                      error |-> "", value |-> clock + 1]
        \/ /\ UNCHANGED <<walrus, cache>>
           /\ ret' = [kind |-> "error", call |-> "store_processed_data",
                      ref_id |-> clock + 1, user_address |-> user_address,
                      error |-> "HTTPError", value |-> NoValue]
    /\ UNCHANGED dataFrame

\* the value retrieve_processed_data ends with when the service answers:
\* lines 73-83, where line 79 reads the name metadata, which the method
\* does not define, as soon as the loaded data is a list
RetrieveOutcome(ref_id, user_address) ==
    LET data_obj == LoadStorage(ServiceDoc(ref_id)) IN
    IF data_obj.user_address # user_address
    THEN [kind |-> "returned", error |-> "", value |-> NoValue]
    ELSE IF data_obj.data.py = "list"
         THEN [kind |-> "error", error |-> "NameError", value |-> NoValue]
         ELSE [kind |-> "returned", error |-> "", value |-> data_obj]

\* lines 58-83
retrieve_processed_data ==
    /\ \E ref_id \in RefIds, user_address \in Users :
        IF CacheOwner(cache, ref_id, user_address)
        THEN \/ ret' = [kind |-> RetrieveOutcome(ref_id, user_address).kind,
                        call |-> "retrieve_processed_data",
                        ref_id |-> ref_id, user_address |-> user_address,
                        error |-> RetrieveOutcome(ref_id, user_address).error,
                        value |-> RetrieveOutcome(ref_id, user_address).value]
             \/ ret' = [kind |-> "error", call |-> "retrieve_processed_data",
                        ref_id |-> ref_id, user_address |-> user_address,
                        error |-> "HTTPError", value |-> NoValue]
        ELSE ret' = [kind |-> "returned", call |-> "retrieve_processed_data",
                     ref_id |-> ref_id, user_address |-> user_address,
                     error |-> "", value |-> NoValue]
    /\ UNCHANGED <<dataVars, dataFrame>>

\* lines 97-108: the user's cache entries, newest first
UserRefs(c, user_address) ==
    LET own == {e \in c : e.user_address = user_address}
        order == CHOOSE s \in [1..Cardinality(own) -> own] :
                    \A a, b \in 1..Cardinality(own) :
                        a < b => s[a].timestamp > s[b].timestamp
    IN [k \in 1..Cardinality(own) |->
            [ref_id |-> order[k].ref_id, timestamp |-> order[k].timestamp]]

\* lines 85-108
list_user_data ==
    /\ \E user_address \in Users :
        ret' = [kind |-> "returned", call |-> "list_user_data",
                ref_id |-> 0, user_address |-> user_address,
                error |-> "", value |-> UserRefs(cache, user_address)]
    /\ UNCHANGED <<dataVars, dataFrame>>

\* lines 110-131; WalrusStorageClient.delete returns True or raises
delete_data ==
    /\ \E ref_id \in RefIds, user_address \in Users :
        IF CacheOwner(cache, ref_id, user_address)
        THEN \/ /\ walrus' = {w \in walrus : w.ref_id # ref_id}
                /\ cache' = {e \in cache : e.ref_id # ref_id}
                /\ ret' = [kind |-> "returned", call |-> "delete_data",
                           ref_id |-> ref_id, user_address |-> user_address,
                           error |-> "", value |-> TRUE]
             \/ /\ UNCHANGED <<walrus, cache>>
                /\ ret' = [kind |-> "error", call |-> "delete_data",
                           ref_id |-> ref_id, user_address |-> user_address,
                           error |-> "HTTPError", value |-> NoValue]
        ELSE /\ UNCHANGED <<walrus, cache>>
             /\ ret' = [kind |-> "returned", call |-> "delete_data",
                        ref_id |-> ref_id, user_address |-> user_address,
                        error |-> "", value |-> FALSE]
    /\ UNCHANGED <<clock, dataFrame>>

DataNext ==
    \/ store_processed_data
    \/ retrieve_processed_data
    \/ list_user_data
    \/ delete_data

\* any sequence of calls on one DataManager
DataSpec == Init /\ [][DataNext]_vars

-----------------------------------------------------------------------------
(* The list objects behind self.nodes and self.edges,                      *)
(* src/unnamed/part_000:55-56, 97-104, 141-142.  The dictionary returned   *)
(* at lines 98-104 holds the two list objects themselves, not copies;      *)
(* nodes and edges are the contents of the lists the builder is bound to,  *)
(* nodes_ref and edges_ref their identities, and held a returned           *)
(* dictionary a caller kept, with the contents its lists had at the        *)
(* return.                                                                 *)

\* the identities of the lists that are still referenced
LiveRefs ==
    {nodes_ref, edges_ref}
        \cup (IF held = NoValue THEN {} ELSE {held.nodes_ref, held.edges_ref})

\* a list object made now: an identity no referenced list has
NewRef(used) == CHOOSE r \in 0..Cardinality(used) : r \notin used

\* lines 55-56 emptying the two lists in place
AliasGenInPlace ==
    /\ \E items \in ItemSeqs(MaxPersistItems) : GenStart(items)
    /\ UNCHANGED <<nodes_ref, edges_ref, held>>
    /\ UNCHANGED <<fileVars, hashVars, extractVars, procVars, dataVars>>

\* lines 54-56: self.nodes = [] and self.edges = [] bind two new lists
AliasGen ==
    /\ \E items \in ItemSeqs(MaxPersistItems) : GenStart(items)
    /\ nodes_ref' = NewRef(LiveRefs)
    /\ edges_ref' = NewRef(LiveRefs \cup {NewRef(LiveRefs)})
    /\ UNCHANGED held
    /\ UNCHANGED <<fileVars, hashVars, extractVars, procVars, dataVars>>

\* the caller keeps the dictionary the last call returned (lines 98-104)
AliasKeep ==
    /\ pc = "idle"
    /\ ret.kind = "graph"
    /\ held = NoValue
    /\ held' = [kind |-> "graph", nodes_ref |-> nodes_ref,
                edges_ref |-> edges_ref, nodes |-> ret.nodes,
                edges |-> ret.edges]
    /\ UNCHANGED <<graphVars, nodes_ref, edges_ref>>
    /\ UNCHANGED <<fileVars, hashVars, extractVars, procVars, dataVars>>

\* lines 136-142: the lists json.load made are bound to self.nodes and
\* self.edges
AliasLoad ==
    /\ pc = "idle"
    /\ file # NoFile
    /\ nodes' = LoadNodes(file, "nodes")
    /\ edges' = LoadEdges(file, "edges")
    /\ nodes_ref' = NewRef(LiveRefs)
    /\ edges_ref' = NewRef(LiveRefs \cup {NewRef(LiveRefs)})
    /\ ret' = [kind |-> "loaded"]
    /\ UNCHANGED <<pc, user_data, consciousness_vector, core_node_id, i,
                   node_id, similar_nodes, built, held>>
    /\ UNCHANGED <<fileVars, hashVars, extractVars, procVars, dataVars>>

\* files written by earlier runs: an empty graph, the graph of no items
AliasFiles ==
    {JsonDump(<<>>, <<>>),
     JsonDump(add_node(<<>>, CoreData, "consciousness", ZeroVector), <<>>)}

\* a new builder beside a file of an earlier run
AliasInit ==
    /\ InitBuilder
    /\ InitHash
    /\ InitExtract
    /\ InitAlias
    /\ InitProcessor
    /\ InitData
    /\ file \in AliasFiles
    /\ saved = NoFile

AliasNext ==
    \/ AliasGen
    \/ Build
    \/ AliasKeep
    \/ AliasLoad

\* builds and loads on one builder whose caller keeps a returned graph
AliasSpec == AliasInit /\ [][AliasNext]_vars

-----------------------------------------------------------------------------
(* Properties.                                                             *)

CC == "consciousness_connection"
SEM == "semantic_similarity"

HasId(ns, nid) == \E k \in 1..Len(ns) : ns[k].id = nid
\* position of the node with that id
Pos(ns, nid) == CHOOSE k \in 1..Len(ns) : ns[k].id = nid

\* a generate_consciousness_graph call has returned and its value is in ret
Returned == pc = "idle" /\ ret.kind = "graph"

\* C1: the graph returned for n items has exactly n + 1 nodes: the core node,
\* then one node per item, in input order.
C1_NodeCount ==
    Returned =>
        /\ Len(ret.nodes) = Len(user_data) + 1
        /\ ret.nodes[1].data = CoreData
        /\ \A k \in 1..Len(user_data) : ret.nodes[k + 1].data = user_data[k]

C1_Witness ==
    /\ Returned
    /\ Len(user_data) = 3
    /\ Len(ret.nodes) = 4
    /\ user_data[1] # user_data[2]

\* C2: once the first node exists, during the build and after it, exactly one
\* node has kind consciousness and it is the first node.
C2_OneCore ==
    nodes # <<>> =>
        /\ nodes[1].kind = "consciousness"
        /\ \A k \in 2..Len(nodes) : nodes[k].kind # "consciousness"

C2_Witness ==
    /\ pc = "link"
    /\ Len(nodes) = 3
    /\ nodes[1].kind = "consciousness"

\* the consciousness_connection edges of a sequence of edges, in order
CoreEdges(es) ==
    LET IsCC(e) == e.kind = CC IN SelectSeq(es, IsCC)

\* C3: for n items there are exactly n consciousness_connection edges; the
\* i-th (0-indexed) goes from the core node to the node of item i with weight
\* 1/(i+1); every non-core node is on exactly one such edge.
C3_CoreEdges ==
    Returned =>
        LET cc == CoreEdges(ret.edges) IN
        /\ Len(cc) = Len(user_data)
        /\ \A k \in 1..Len(cc) :
            /\ cc[k].source = ret.nodes[1].id
            /\ cc[k].dest = ret.nodes[k + 1].id
            /\ cc[k].weight.num > 0
            /\ cc[k].weight.num * k = cc[k].weight.den
        /\ \A k \in 2..Len(ret.nodes) :
            Cardinality({j \in 1..Len(cc) :
                ret.nodes[k].id \in {cc[j].source, cc[j].dest}}) = 1

C3_Witness ==
    /\ Returned
    /\ Len(user_data) = 3
    /\ \E j \in 1..Len(ret.edges) :
        /\ ret.edges[j].kind = CC
        /\ ret.edges[j].weight = [num |-> 1, den |-> 3]
        /\ ret.edges[j].dest = ret.nodes[4].id

\* the kind the classification is to give, by the keys present
IntendedKind(data_item) ==
    IF HasKey(data_item, "text") /\ HasKey(data_item, "image") THEN "multimodal_data"
    ELSE IF HasKey(data_item, "text") THEN "text_data"
    ELSE IF HasKey(data_item, "image") THEN "image_data"
    ELSE IF HasKey(data_item, "audio") THEN "audio_data"
    ELSE "generic_data"

\* C4: the kind of an item's node depends only on the keys present: text and
\* image give multimodal_data, else text gives text_data, else image gives
\* image_data, else audio gives audio_data, else generic_data.
C4_Classification ==
    Returned =>
        \A k \in 1..Len(user_data) :
            ret.nodes[k + 1].kind = IntendedKind(user_data[k])

\* number of semantic_similarity edges whose source is the node of item idx
SemOut(g, idx) ==
    Cardinality({j \in 1..Len(g.edges) :
        g.edges[j].kind = SEM /\ g.edges[j].source = g.nodes[idx + 2].id})

\* C5 as stated: item i originates at most min(top_k, i) semantic_similarity
\* edges.
C5_SimilarityBound ==
    Returned =>
        \A idx \in 0..(Len(user_data) - 1) :
            SemOut(ret, idx) <= Min(BuildTopK, idx)

\* C5 as amended: item i originates at most min(top_k, i + 1)
\* semantic_similarity edges: the core node is a candidate too.
C5_SimilarityBoundAmended ==
    Returned =>
        \A idx \in 0..(Len(user_data) - 1) :
            SemOut(ret, idx) <= Min(BuildTopK, idx + 1)

C5_Witness ==
    /\ Returned
    /\ \E idx \in 0..(Len(user_data) - 1) :
        /\ idx + 1 > BuildTopK
        /\ SemOut(ret, idx) = BuildTopK
    /\ SemOut(ret, 0) = 1

\* an edge was appended by this step
EdgeAdded == Len(edges') = Len(edges) + 1 /\ SubSeq(edges', 1, Len(edges)) = edges

\* C6: when an edge is added both its endpoints are ids of nodes of the graph
\* and differ; a semantic_similarity edge goes from the node just created to
\* a node created strictly earlier in the same call.
C6_SimilarityEdges ==
    [][EdgeAdded =>
        LET e == edges'[Len(edges')] IN
        /\ HasId(nodes', e.source)
        /\ HasId(nodes', e.dest)
        /\ e.source # e.dest
        /\ e.kind = SEM =>
            /\ e.source = nodes'[Len(nodes')].id
            /\ e.source = built'.nodes[Len(built'.nodes)].id
            /\ HasId(built'.nodes, e.dest)
            /\ Pos(nodes', e.dest) < Pos(nodes', e.source)]_vars

C6_Witness ==
    /\ pc = "link"
    /\ Len(nodes) = 4
    /\ \E j \in 1..Len(edges) :
        /\ edges[j].kind = SEM
        /\ edges[j].source = node_id
        /\ edges[j].dest = nodes[2].id

\* C7: after a call the builder holds exactly the nodes and edges the call
\* created, whatever it held before.
C7_Discards ==
    Returned =>
        /\ nodes = built.nodes
        /\ edges = built.edges
        /\ ret.nodes = nodes
        /\ ret.edges = edges
        /\ Len(nodes) = Len(user_data) + 1

C7_Witness ==
    /\ Returned
    /\ Len(nodes) = 1
    /\ saved.kind = "graph"
    /\ Len(saved.nodes) = 2

\* the score of the node at position p against the query of ret
ScoreAt(p) == Cosine(ret.embedding, nodes[p].embedding)
\* position p ranks before position q: higher score, or equal and earlier
RanksBefore(p, q) ==
    \/ RatGT(ScoreAt(p), ScoreAt(q))
    \/ RatEQ(ScoreAt(p), ScoreAt(q)) /\ p < q

\* C8: query_similar_nodes(q, top_k) on m nodes returns exactly min(top_k, m)
\* nodes, those of highest cosine similarity to q, by descending score, equal
\* scores by earliest insertion; no node is left out on its own.
C8_Ranking ==
    (pc = "idle" /\ ret.kind = "similar") =>
        LET r == ret.result
            at == [j \in 1..Len(r) |-> Pos(nodes, r[j].id)]
        IN  /\ Len(r) = Min(ret.top_k, Len(nodes))
            /\ \A j \in 1..Len(r) :
                /\ HasId(nodes, r[j].id)
                /\ r[j].similarity_score = ScoreAt(at[j])
                /\ r[j].embedding = nodes[at[j]].embedding
            /\ \A j, k \in 1..Len(r) : j < k => RanksBefore(at[j], at[k])
            /\ \A p \in 1..Len(nodes) :
                (\A j \in 1..Len(r) : at[j] # p) =>
                    \A j \in 1..Len(r) : RanksBefore(at[j], p)

C8_Witness ==
    /\ pc = "idle"
    /\ ret.kind = "similar"
    /\ ret.top_k = 3
    /\ Len(nodes) = 5
    /\ Len(ret.result) = 3
    /\ RatEQ(ret.result[2].similarity_score, ret.result[3].similarity_score)
    /\ RatEQ(ret.result[3].similarity_score, ScoreAt(5))
    /\ RatGT(ret.result[1].similarity_score, ret.result[2].similarity_score)

\* C9: load after save gives the builder the nodes and edges that were saved,
\* in order and field by field, in place of what it held.
C9_RoundTrip ==
    /\ file # NoFile =>
        /\ LoadNodes(file, "nodes") = saved.nodes
        /\ LoadEdges(file, "edges") = saved.edges
    /\ (pc = "idle" /\ ret.kind = "loaded") =>
        /\ nodes = saved.nodes
        /\ edges = saved.edges

C9_Witness ==
    /\ pc = "idle"
    /\ ret.kind = "loaded"
    /\ Len(nodes) = 2
    /\ Len(edges) = 2
    /\ user_data = <<>>
    /\ Len(built.nodes) = 1

\* C10: two invocations of the hash function on the same feature vector give
\* the same bucket index.
C10_HashDeterministic ==
    (Len(hin) = 2 /\ hin[1] = hin[2]) => hout[1] = hout[2]

C12_WeightRange ==
    Returned =>
        \A k \in 1..Len(ret.edges) :
            /\ ret.edges[k].weight.den > 0
            /\ ret.edges[k].weight.num > 0
            /\ ret.edges[k].weight.num <= ret.edges[k].weight.den

\* a generate_consciousness_graph call has raised
Failed == pc = "idle" /\ ret.kind = "error"
              /\ ret.error = "generate_consciousness_graph"

\* C13: after a generate_consciousness_graph call that failed, the builder
\* holds no node and no edge of the graph it held before the call: its nodes
\* and edges are exactly what the failed call appended, a prefix (possibly
\* empty) of the graph of the call's items.
C13_FailureLeavesPrefix ==
    Failed =>
        /\ nodes = built.nodes
        /\ edges = built.edges
        /\ Len(nodes) <= Len(user_data) + 1
        /\ nodes # <<>> => nodes[1].kind = "consciousness"
        /\ \A k \in 2..Len(nodes) : nodes[k].data = user_data[k - 1]
        /\ \A k \in 1..Len(edges) :
            HasId(nodes, edges[k].source) /\ HasId(nodes, edges[k].dest)

\* a call failed after its core node, on a builder that had held (and saved)
\* a graph with an item node and edges
C13_Witness ==
    /\ Failed
    /\ Len(nodes) = 1
    /\ edges = <<>>
    /\ saved.kind = "graph"
    /\ Len(saved.nodes) = 2
    /\ saved.edges # <<>>

\* C14: on a processor without a storage backend, process_user_data and
\* query_similar_users fail at once with the not-initialized error, before
\* any graph construction: the step leaves the builder's nodes and edges as
\* they were and no store operation is ever issued.
C14_NotConfigured ==
    [][~walrus_manager =>
        /\ stored' = <<>>
        /\ proc'.at = "idle"
        /\ (process_user_data \/ query_similar_users) =>
            /\ ret'.kind = "error"
            /\ ret'.error = NotInitialized
            /\ pc' = "idle"
            /\ nodes' = nodes
            /\ edges' = edges]_vars

\* process_user_data has failed on a processor without a storage backend
\* whose network holds a graph built by a direct call
C14_Witness ==
    /\ ~walrus_manager
    /\ ret.kind = "error"
    /\ ret.error = NotInitialized
    /\ ret.call = "process_user_data"
    /\ Len(nodes) = 2
    /\ edges # <<>>
    /\ stored = <<>>

\* the service holds a document of that user under that reference: the
\* reference was stored by the user and not deleted
StoredBy(ref_id, user_address) ==
    \E w \in walrus :
        w.ref_id = ref_id /\ w.doc.m.user_address.v = user_address

\* C15: whenever the service answers, retrieve_processed_data(ref_id, user)
\* returns the stored object if ref_id was stored by that user and is not
\* deleted, and None in every other case; it does not raise for a stored
\* reference, whether the stored data was an array or a dictionary.
C15_Retrieve ==
    (ret.kind # "none" /\ ret.call = "retrieve_processed_data"
        /\ ret.error # "HTTPError") =>
        /\ ret.kind = "returned"
        /\ IF StoredBy(ret.ref_id, ret.user_address)
           THEN /\ ret.value # NoValue
                /\ ret.value.user_address = ret.user_address
                /\ DumpData(ret.value.data) = ServiceDoc(ret.ref_id).m.data
           ELSE ret.value = NoValue

\* C16: a delete_data(ref_id, user) call returns True only when the cache
\* records user as the owner of ref_id and the service's delete succeeded,
\* and then ref_id is gone from the cache and from list_user_data of every
\* user; in every other case it returns False and the cache is unchanged.
C16_Delete ==
    [][ret'.call = "delete_data" =>
        /\ ret'.kind = "returned"
        /\ ret'.value = TRUE =>
            /\ CacheOwner(cache, ret'.ref_id, ret'.user_address)
            /\ cache' = {e \in cache : e.ref_id # ret'.ref_id}
            /\ \A w \in walrus' : w.ref_id # ret'.ref_id
            /\ \A u \in Users :
                \A k \in DOMAIN UserRefs(cache', u) :
                    UserRefs(cache', u)[k].ref_id # ret'.ref_id
        /\ ret'.value # TRUE =>
            /\ ret'.value = FALSE
            /\ cache' = cache]_vars

\* the value of the 8 bits of group g (0 to 3), bit j weighted 2^j
Digit(bits, g) ==
    bits[8 * g] + 2 * bits[8 * g + 1] + 4 * bits[8 * g + 2]
        + 8 * bits[8 * g + 3] + 16 * bits[8 * g + 4] + 32 * bits[8 * g + 5]
        + 64 * bits[8 * g + 6] + 128 * bits[8 * g + 7]

\* C17: for every 32-bit sign pattern and every hash_size >= 1 the bucket
\* index is at least 0 and less than hash_size, and is the fold of the four
\* 8-bit digits d0..d3: combined = d0, then (combined * 256 + d) mod hash_size
\* for d1, d2 and d3.
C17_BucketInRange ==
    hout # <<>> =>
        LET bits == hin[1].binary
            size == hin[1].hash_size
            c1 == (Digit(bits, 0) * 256 + Digit(bits, 1)) % size
            c2 == (c1 * 256 + Digit(bits, 2)) % size
            c3 == (c2 * 256 + Digit(bits, 3)) % size
        IN /\ hout[1] >= 0
           /\ hout[1] < size
           /\ hout[1] = c3

\* a pattern whose first digit, 255, is larger than the table, with three
\* further non-zero digits
C17_Witness ==
    /\ hout # <<>>
    /\ hin[1].hash_size = 3
    /\ Digit(hin[1].binary, 0) = 255
    /\ Digit(hin[1].binary, 1) = 128
    /\ Digit(hin[1].binary, 2) = 2
    /\ Digit(hin[1].binary, 3) = 127

\* what the lists of the kept graph contain now: the builder's own contents
\* while the builder is still bound to the same list object
HeldNodes == IF held.nodes_ref = nodes_ref THEN nodes ELSE held.nodes
HeldEdges == IF held.edges_ref = edges_ref THEN edges ELSE held.edges

\* C18: a graph returned by generate_consciousness_graph is not altered by
\* later generate_consciousness_graph or load_from_file calls on the builder:
\* its nodes and edges keep the content and order they had at the return.
C18_ReturnedGraphKept ==
    held # NoValue =>
        /\ HeldNodes = held.nodes
        /\ HeldEdges = held.edges
        /\ pc # "idle" => (held.nodes_ref # nodes_ref
                             /\ held.edges_ref # edges_ref)

\* a graph of two nodes was kept, and a later call has returned a graph of
\* one node built in other lists
C18_Witness ==
    /\ held # NoValue
    /\ Len(held.nodes) = 2
    /\ held.edges # <<>>
    /\ Returned
    /\ Len(nodes) = 1
    /\ HeldNodes = held.nodes
    /\ held.nodes_ref # nodes_ref

====
